---------------------------- MODULE Spec2Model ----------------------------
(***************************************************************************)
(* A model of CrosswordCreator (src/generate.py): the domain store, node   *)
(* consistency, revise, the AC-3 worklist loop, the search heuristics and  *)
(* the recursive backtracking search, as a state machine whose steps are   *)
(* the calls of the class's methods and the iterations of its loops.       *)
(*                                                                         *)
(* A word is a sequence of letters, a slot ("variable") a record with the  *)
(* fields of crossword.Variable.  Python's None is the empty sequence      *)
(* where an overlap is meant and the empty set where an optional           *)
(* assignment is meant.                                                    *)
(***************************************************************************)
EXTENDS Naturals, Sequences, FiniteSets

VARIABLES
    variables,  \* crossword.variables: the slots of the problem
    order,      \* the iteration order of the set crossword.variables, fixed
                \* by the first loop over it (<< >> until then)
    words,      \* crossword.words: the vocabulary
    overlaps,   \* crossword.overlaps: <<x, y>> -> None or the offsets <<i, j>>
    domains,    \* self.domains: slot -> set of candidate words
    pc,         \* "idle" | "ac3" (ac3 called by solve) | "ac3_call" (ac3
                \* called directly) | "search" | "backtrack" | "done" (solve
                \* has returned) | "returned" (a direct call of ac3 or of
                \* order_domain_values has returned)
    queue,      \* ac3's deque of arcs <<X, Y>>
    entry,      \* self.domains as it was when the running ac3 was called
    stack,      \* the activation records of backtrack, innermost last
    result,     \* solve's return value: {} is None, {a} the assignment a
    last,       \* the most recent completed operation on the domain store
                \* (or the direct call of ac3 that is running)
    before,     \* the operation completed before `last`
    calls       \* how many direct method calls a client has made

vars == <<variables, order, words, overlaps, domains, pc, queue, entry,
          stack, result, last, before, calls>>

----------------------------------------------------------------------------
(* Bounds and the sets the inputs are drawn from.                          *)

\* The largest vocabulary a problem is given.
MaxWords == 4

\* The most direct calls of enforce_node_consistency and revise that a client
\* makes on one creator.
MaxCalls == 2

\* The largest vocabulary of a creator whose order_domain_values is called
\* directly.
MaxOdvWords == 2

Variable(i, j, direction, length) ==
    [i |-> i, j |-> j, direction |-> direction, length |-> length]

\* Two across slots of length 3 and two down slots of length 2; together
\* they form a ring A0 - D0 - A1 - D1 - A0, and every subset is a problem.
AllVariables ==
    { Variable(0, 0, "across", 3), Variable(1, 0, "across", 3),
      Variable(0, 0, "down", 2),   Variable(0, 1, "down", 2) }

\* The words a vocabulary is drawn from.  Every word is at least as long as
\* the largest overlap offset plus one, so x_word[x_index] is always defined.
WordPool ==
    { <<"a", "a">>, <<"a", "b">>, <<"b", "a">>,
      <<"a", "a", "a">>, <<"a", "b", "a">>, <<"b", "a", "b">> }

None == << >>

\* The lists of arcs a caller hands to ac3: no arc, one arc, or an arc and
\* then its reverse, over the pairs of different slots.
SuppliedArcs(slots) ==
    LET pairs == { a \in slots \X slots : a[1] # a[2] }
    IN  {<< >>} \cup { <<a>> : a \in pairs }
                \cup { << a, <<a[2], a[1]>> >> : a \in pairs }

\* All enumerations of a finite set: the orders a Python set may iterate in.
Perms(S) ==
    { f \in [1..Cardinality(S) -> S] : \A s \in S : \E k \in DOMAIN f : f[k] = s }

----------------------------------------------------------------------------
(* The problem model (crossword.Variable and crossword.Crossword).         *)

\* Variable.cells: the k-th cell of a slot.
Cells(v) ==
    [k \in 1..v.length |->
        << v.i + (IF v.direction = "down" THEN k - 1 ELSE 0),
           v.j + (IF v.direction = "across" THEN k - 1 ELSE 0) >>]

\* The entry Crossword.__init__ computes for overlaps[x, y]: None, or the
\* 0-based offsets <<i, j>> of the cell the two slots share.
ComputeOverlap(x, y) ==
    LET cx == Cells(x)
        cy == Cells(y)
        shared == { p \in (DOMAIN cx) \X (DOMAIN cy) : cx[p[1]] = cy[p[2]] }
    IN  IF shared = {} THEN None
        ELSE LET p == CHOOSE q \in shared : TRUE IN << p[1] - 1, p[2] - 1 >>

\* crossword.overlaps[(x, y)]
Overlaps(x, y) == overlaps[<<x, y>>]

\* crossword.neighbors(var)
Neighbors(var) ==
    { v \in variables : v # var /\ Overlaps(v, var) # None }

\* word[index] with Python's 0-based index
Char(word, index) == word[index + 1]

----------------------------------------------------------------------------
(* enforce_node_consistency                                                *)

\* A variant that removes only the words that are too long.
EnforceNodeConsistency_KeepShorter(doms) ==
    LET rm == [var \in DOMAIN doms |->
                  { option \in doms[var] : Len(option) > var.length }]
    IN  [var \in DOMAIN doms |-> doms[var] \ rm[var]]

\* A variant that rebuilds each domain from the vocabulary.
EnforceNodeConsistency_FromVocabulary(doms) ==
    [var \in DOMAIN doms |-> { option \in words : Len(option) = var.length }]

EnforceNodeConsistency(doms) ==
    LET rm == [var \in DOMAIN doms |->
                  { option \in doms[var] : Len(option) # var.length }]
    IN  [var \in DOMAIN doms |-> doms[var] \ rm[var]]

----------------------------------------------------------------------------
(* revise                                                                  *)

\* A variant that drops a word as soon as one word of y's domain disagrees
\* with it.
Invalid_AnyMismatch(doms, x, y) ==
    LET x_index == Overlaps(x, y)[1]
        y_index == Overlaps(x, y)[2]
    IN  { x_word \in doms[x] :
            \E y_word \in doms[y] :
                Char(x_word, x_index) # Char(y_word, y_index) }

\* A variant that reads both words at x's offset.
Invalid_SameIndex(doms, x, y) ==
    LET x_index == Overlaps(x, y)[1]
    IN  { x_word \in doms[x] :
            \A y_word \in doms[y] :
                Char(x_word, x_index) # Char(y_word, x_index) }

\* The words of x's domain that no word of y's domain is compatible with.
Invalid(doms, x, y) ==
    LET x_index == Overlaps(x, y)[1]
        y_index == Overlaps(x, y)[2]
    IN  { x_word \in doms[x] :
            \A y_word \in doms[y] :
                Char(x_word, x_index) # Char(y_word, y_index) }

\* self.domains after revise(x, y)
ReviseDomains(doms, x, y) ==
    IF Overlaps(x, y) # None
    THEN [doms EXCEPT ![x] = doms[x] \ Invalid(doms, x, y)]
    ELSE doms

\* A variant that sets the flag on any mismatching pair of words, not only
\* when a word is removed.
ReviseResult_AnyMismatch(doms, x, y) ==
    /\ Overlaps(x, y) # None
    /\ \E x_word \in doms[x], y_word \in doms[y] :
          Char(x_word, Overlaps(x, y)[1]) # Char(y_word, Overlaps(x, y)[2])

\* the value revise(x, y) returns
ReviseResult(doms, x, y) ==
    /\ Overlaps(x, y) # None
    /\ Invalid(doms, x, y) # {}

----------------------------------------------------------------------------
(* ac3                                                                     *)

\* itertools.combinations(seq, 2), in the order it yields the pairs
RECURSIVE Combinations(_)
Combinations(seq) ==
    IF Len(seq) < 2 THEN << >>
    ELSE [k \in 1..(Len(seq) - 1) |-> << seq[1], seq[k + 1] >>]
            \o Combinations(Tail(seq))

\* The queue ac3 starts from when it is given no arcs; ord is the order in
\* which the set crossword.variables iterates.
InitialQueue(ord) ==
    SelectSeq(Combinations(ord), LAMBDA arc : Overlaps(arc[1], arc[2]) # None)

\* The arcs one iteration of the loop appends after popping (X, Y), for the
\* order nbs in which crossword.neighbors(X) iterates.
NewArcs(nbs, X, Y) ==
    LET others == SelectSeq(nbs, LAMBDA neighbor : neighbor # Y)
    IN  [k \in 1..Len(others) |-> << others[k], X >>]

----------------------------------------------------------------------------
(* assignment_complete, consistent                                        *)

AssignmentComplete(assignment) ==
    Cardinality(DOMAIN assignment) = Cardinality(variables)

\* A variant without the check that no word is assigned twice.
Consistent_OverlapsOnly(assignment) ==
    \A var \in DOMAIN assignment :
        \A neighbor \in Neighbors(var) \cap DOMAIN assignment :
            Char(assignment[var], Overlaps(var, neighbor)[1])
              = Char(assignment[neighbor], Overlaps(var, neighbor)[2])

Consistent(assignment) ==
    LET count(word) == Cardinality({ v \in DOMAIN assignment : assignment[v] = word })
    IN  /\ \A v \in DOMAIN assignment : ~ (count(assignment[v]) > 1)
        /\ \A var \in DOMAIN assignment :
              \A neighbor \in Neighbors(var) \cap DOMAIN assignment :
                  Char(assignment[var], Overlaps(var, neighbor)[1])
                    = Char(assignment[neighbor], Overlaps(var, neighbor)[2])

----------------------------------------------------------------------------
(* The heuristics                                                          *)

\* sorted(seq, key=...) for the key function key: ascending, and stable
\* (elements with equal keys keep their order).
SortedBy(seq, key) ==
    LET n == Len(seq)
        rank(k) == Cardinality({ m \in 1..n :
                        \/ key[seq[m]] < key[seq[k]]
                        \/ key[seq[m]] = key[seq[k]] /\ m < k }) + 1
    IN  [r \in 1..n |-> seq[CHOOSE k \in 1..n : rank(k) = r]]

\* select_unassigned_variable(assignment); self.domains iterates in the
\* order it was built in, which is that of crossword.variables.  h[var] is
\* the pair (domain, degree).
SelectUnassignedVariable(assignment) ==
    LET vs == SelectSeq(order, LAMBDA i : i \notin DOMAIN assignment)
        h == [var \in variables |->
                << Cardinality(domains[var]), Cardinality(Neighbors(var)) >>]
        remaining == SortedBy(vs, [var \in variables |-> h[var][1]])
    IN  IF Len(remaining) > 1 /\ h[remaining[1]][1] = h[remaining[2]][1]
        THEN LET lowest == << remaining[1], remaining[2] >>
             IN  SortedBy(lowest, [var \in variables |-> h[var][2]])[2]
        ELSE remaining[1]

\* A variant that puts the word with the largest count first.
OrderDomainValues_Descending(var, assignment) ==
    LET neighbors == Neighbors(var)
        count == [word \in domains[var] |->
                    Cardinality({ neighbor \in neighbors :
                        /\ neighbor \notin DOMAIN assignment
                        /\ word \in domains[neighbor] })]
        reversed(seq) == [k \in 1..Len(seq) |-> seq[Len(seq) + 1 - k]]
    IN  { reversed(SortedBy(o, count)) : o \in Perms(domains[var]) }

\* order_domain_values(var, assignment): the lists it can return, one for
\* each order in which the set self.domains[var] can iterate.
OrderDomainValues(var, assignment) ==
    LET neighbors == Neighbors(var)
        count == [word \in domains[var] |->
                    Cardinality({ neighbor \in neighbors :
                        /\ neighbor \notin DOMAIN assignment
                        /\ word \in domains[neighbor] })]
    IN  { SortedBy(o, count) : o \in Perms(domains[var]) }

----------------------------------------------------------------------------
(* The operation records the properties are stated about.                  *)

Op(name, args, ret, pre) == [op |-> name, args |-> args, ret |-> ret, pre |-> pre]

Short(rec) == [op |-> rec.op, args |-> rec.args, ret |-> rec.ret]

NoOp == [op |-> "init", args |-> << >>, ret |-> FALSE]

----------------------------------------------------------------------------
Init ==
    /\ variables \in (SUBSET AllVariables) \ {{}}
    /\ order = << >>
    /\ words \in { W \in SUBSET WordPool : Cardinality(W) <= MaxWords }
    /\ overlaps = [arc \in { a \in variables \X variables : a[1] # a[2] } |->
                      ComputeOverlap(arc[1], arc[2])]
    /\ domains = [var \in variables |-> words]
    /\ pc = "idle"
    /\ queue = << >>
    /\ entry = domains
    /\ stack = << >>
    /\ result = {}
    /\ last = Op("init", << >>, FALSE, domains)
    /\ before = NoOp
    /\ calls = 0

\* A direct call of enforce_node_consistency().
CallEnforceNodeConsistency ==
    /\ pc = "idle"
    /\ calls < MaxCalls
    /\ calls' = calls + 1
    /\ domains' = EnforceNodeConsistency(domains)
    /\ last' = Op("enforce_node_consistency", << >>, FALSE, domains)
    /\ before' = Short(last)
    /\ UNCHANGED <<variables, order, words, overlaps, pc, queue, entry, stack, result>>

\* A direct call of revise(x, y) on two different slots.
CallRevise ==
    /\ pc = "idle"
    /\ calls < MaxCalls
    /\ calls' = calls + 1
    /\ \E x \in variables, y \in variables :
        /\ x # y
        /\ domains' = ReviseDomains(domains, x, y)
        /\ last' = Op("revise", <<x, y>>, ReviseResult(domains, x, y), domains)
        /\ before' = Short(last)
    /\ UNCHANGED <<variables, order, words, overlaps, pc, queue, entry, stack, result>>

\* A direct call of ac3(arcs), up to the first test of its loop (lines
\* 159-163).  arcs is {} for None and {list} for a list of arcs.
CallAc3 ==
    /\ pc = "idle"
    /\ calls < MaxCalls
    /\ calls' = calls + 1
    /\ \E arcs \in {{}} \cup { {l} : l \in SuppliedArcs(variables) } :
        /\ IF arcs = {}
           THEN \E ord \in Perms(variables) :
                    /\ order' = ord
                    /\ queue' = InitialQueue(ord)
           ELSE /\ order' = order
                /\ \E l \in arcs : queue' = l
        /\ last' = Op("ac3_enter", <<arcs>>, FALSE, domains)
    /\ before' = Short(last)
    /\ entry' = domains
    /\ pc' = "ac3_call"
    /\ UNCHANGED <<variables, words, overlaps, domains, stack, result>>

\* A direct call of order_domain_values(var, assignment), with at most one
\* neighbor of var assigned.  The call reads the domains and changes nothing.
CallOrderDomainValues ==
    /\ pc = "idle"
    /\ calls < MaxCalls
    /\ calls' = calls + 1
    /\ \E var \in variables :
       \E assigned \in { S \in SUBSET Neighbors(var) : Cardinality(S) <= 1 } :
       \E assignment \in [assigned -> words] :
       \E values \in OrderDomainValues(var, assignment) :
          last' = Op("order_domain_values", <<var, assigned>>, values, domains)
    /\ before' = Short(last)
    /\ pc' = "returned"
    /\ UNCHANGED <<variables, order, words, overlaps, domains, queue, entry, stack, result>>

\* main(): solve() on the creator as constructed.  Lines 93-94 up to the
\* first test of ac3's loop: node consistency, then ac3's initial queue.
Solve ==
    /\ pc = "idle"
    /\ calls = 0
    /\ \E ord \in Perms(variables) :
        /\ order' = ord
        /\ queue' = InitialQueue(ord)
    /\ domains' = EnforceNodeConsistency(domains)
    /\ entry' = domains'
    /\ last' = Op("enforce_node_consistency", << >>, FALSE, domains)
    /\ before' = Short(last)
    /\ pc' = "ac3"
    /\ UNCHANGED <<variables, words, overlaps, stack, result, calls>>

\* One iteration of ac3's while loop (lines 165-177).  ac3 returns to its
\* caller: to solve, which goes on to search, or to the direct caller.
Ac3Loop ==
    /\ pc \in {"ac3", "ac3_call"}
    /\ queue # << >>
    /\ LET X == queue[1][1]
           Y == queue[1][2]
           revised == ReviseResult(domains, X, Y)
       IN  /\ domains' = ReviseDomains(domains, X, Y)
           /\ IF revised /\ Cardinality(domains'[X]) = 0
              THEN \* return False
                   /\ pc' = IF pc = "ac3" THEN "search" ELSE "returned"
                   /\ queue' = Tail(queue)
                   /\ last' = Op(pc, << >>, FALSE, entry)
                   /\ before' = [op |-> "revise", args |-> <<X, Y>>, ret |-> revised]
              ELSE /\ pc' = pc
                   /\ \E nbs \in Perms(Neighbors(X)) :
                        queue' = Tail(queue) \o NewArcs(nbs, X, Y)
                   /\ last' = Op("revise", <<X, Y>>, revised, domains)
                   /\ before' = Short(last)
    /\ UNCHANGED <<variables, order, words, overlaps, entry, stack, result, calls>>

\* ac3's loop ends on an empty queue: return True (line 178).
Ac3Exit ==
    /\ pc \in {"ac3", "ac3_call"}
    /\ queue = << >>
    /\ pc' = IF pc = "ac3" THEN "search" ELSE "returned"
    /\ last' = Op(pc, << >>, TRUE, entry)
    /\ before' = Short(last)
    /\ UNCHANGED <<variables, order, words, overlaps, domains, queue, entry, stack, result, calls>>

\* A call backtrack(assignment) made with the activation records stk below
\* it, up to its loop (lines 269-275): a complete assignment is returned
\* through every caller; otherwise the call picks its slot and its values.
Backtrack(assignment, stk) ==
    IF AssignmentComplete(assignment)
    THEN /\ pc' = "done"
         /\ result' = {assignment}
         /\ stack' = << >>
    ELSE \E var \in {SelectUnassignedVariable(assignment)} :
         \E values \in OrderDomainValues(var, assignment) :
            /\ pc' = "backtrack"
            /\ result' = result
            /\ stack' = Append(stk, [assignment |-> assignment,
                                     var |-> var, values |-> values])

\* solve() calls backtrack(dict()) whatever ac3 returned (line 95).
SolveBacktrack ==
    /\ pc = "search"
    /\ Backtrack([v \in {} |-> << >>], << >>)
    /\ UNCHANGED <<variables, order, words, overlaps, domains, queue, entry, last, before, calls>>

\* One iteration of backtrack's for loop in the innermost call
\* (lines 275-281).
BacktrackLoop ==
    /\ pc = "backtrack"
    /\ stack # << >>
    /\ \E top \in {stack[Len(stack)]} :
        /\ top.values # << >>
        /\ \E value \in {Head(top.values)} :
           \E new_assignment \in
                {[v \in DOMAIN top.assignment \cup {top.var} |->
                    IF v = top.var THEN value ELSE top.assignment[v]]} :
           \E stk \in {[stack EXCEPT ![Len(stack)].values = Tail(top.values)]} :
              IF Consistent(new_assignment)
              THEN Backtrack(new_assignment, stk)
              ELSE /\ stack' = stk
                   /\ UNCHANGED <<pc, result>>
    /\ UNCHANGED <<variables, order, words, overlaps, domains, queue, entry, last, before, calls>>

\* The innermost call has tried every value: return None (line 282).
BacktrackFail ==
    /\ pc = "backtrack"
    /\ stack # << >>
    /\ stack[Len(stack)].values = << >>
    /\ stack' = SubSeq(stack, 1, Len(stack) - 1)
    /\ pc' = IF Len(stack) = 1 THEN "done" ELSE "backtrack"
    /\ result' = result
    /\ UNCHANGED <<variables, order, words, overlaps, domains, queue, entry, last, before, calls>>

\* The steps of a running solve(), which the interpreter keeps taking.
Step ==
    \/ Ac3Loop
    \/ Ac3Exit
    \/ SolveBacktrack
    \/ BacktrackLoop
    \/ BacktrackFail

Next ==
    \/ CallEnforceNodeConsistency
    \/ CallRevise
    \/ Solve
    \/ Step

Spec == Init /\ [][Next]_vars

FairSpec == Spec /\ WF_vars(Step)

\* Client code that prunes the domains with direct calls and then calls
\* ac3 itself, with or without a list of arcs.
Ac3Next ==
    \/ CallEnforceNodeConsistency
    \/ CallRevise
    \/ CallAc3
    \/ Ac3Loop
    \/ Ac3Exit

Ac3Spec == Init /\ [][Ac3Next]_vars

\* Client code that prunes the domains with direct calls and then calls
\* order_domain_values, on a creator with a small vocabulary.
OdvInit == Init /\ Cardinality(words) <= MaxOdvWords

OdvNext ==
    \/ CallEnforceNodeConsistency
    \/ CallRevise
    \/ CallOrderDomainValues

OdvSpec == OdvInit /\ [][OdvNext]_vars

----------------------------------------------------------------------------
(* What the properties speak of.                                           *)

\* Two different slots of the problem that share a cell.
Overlapping(x, y) == x # y /\ overlaps[<<x, y>>] # None

\* wx in x and wy in y agree on the cell x and y share.
Compatible(x, wx, y, wy) ==
    Char(wx, Overlaps(x, y)[1]) = Char(wy, Overlaps(x, y)[2])

\* a is a valid solution of the problem: an entry for every slot, each word
\* of its slot's length, overlapping slots agreeing, no word used twice.
ValidSolution(a) ==
    /\ DOMAIN a = variables
    /\ \A v \in variables : Len(a[v]) = v.length
    /\ \A x \in variables, y \in variables :
          Overlapping(x, y) => Compatible(x, a[x], y, a[y])
    /\ \A x \in variables, y \in variables : x # y => a[x] # a[y]

\* The problem has a valid solution over its vocabulary.
Solvable == \E a \in [variables -> words] : ValidSolution(a)

\* C1: whatever assignment solve() returns is a valid solution: every slot
\* has a word of its length, overlapping slots agree on their shared cell
\* and no word is used twice.
C1_SolutionValid ==
    pc = "done" => \A a \in result : ValidSolution(a)

\* solve() has returned an assignment for a problem with three slots, two of
\* them crossing the third.
C1_Witness ==
    /\ pc = "done"
    /\ result # {}
    /\ Cardinality(variables) = 3

\* C7: after enforce_node_consistency every slot's domain is exactly the
\* words of its previous domain that have the slot's length.
C7_NodeConsistencyExact ==
    last.op = "enforce_node_consistency" =>
        \A var \in variables :
            domains[var] = { w \in last.pre[var] : Len(w) = var.length }

\* Node consistency has run on a domain that held a word of the slot's
\* length and a word of another length.
C7_Witness ==
    /\ last.op = "enforce_node_consistency"
    /\ \E var \in variables :
        /\ \E w \in last.pre[var] : Len(w) = var.length
        /\ \E w \in last.pre[var] : Len(w) < var.length
    /\ \E var \in variables :
        /\ \E w \in last.pre[var] : Len(w) = var.length
        /\ \E w \in last.pre[var] : Len(w) > var.length

\* C9: a second revise(x, y) right after a first one, with no change to the
\* domains in between, returns False and leaves x's domain as it was.
C9_ReviseIdempotent ==
    (last.op = "revise" /\ before.op = "revise" /\ before.args = last.args) =>
        /\ last.ret = FALSE
        /\ domains[last.args[1]] = last.pre[last.args[1]]

\* revise(x, y) has been called twice in a row and the first call removed a
\* word.
C9_Witness ==
    /\ last.op = "revise"
    /\ before.op = "revise"
    /\ before.args = last.args
    /\ before.ret = TRUE

\* Every word of x's domain has a compatible word in y's domain, for every
\* ordered pair (x, y) of overlapping slots.
ArcConsistent(doms) ==
    \A x \in variables, y \in variables :
        Overlapping(x, y) =>
            \A wx \in doms[x] : \E wy \in doms[y] : Compatible(x, wx, y, wy)

\* C2: when the problem has a valid solution over its vocabulary, solve()
\* eventually returns a valid solution.
C2_SolveComplete ==
    (pc = "ac3" /\ Solvable)
        ~> (pc = "done" /\ result # {} /\ \A a \in result : ValidSolution(a))

\* C3: when the problem has no valid solution, solve() eventually returns
\* None.
C3_UnsolvableReturnsNone ==
    (pc = "ac3" /\ ~ Solvable) ~> (pc = "done" /\ result = {})

\* C4: when ac3() returns True the domains are arc consistent, in both
\* directions of every overlap.
C4_Ac3TrueIsArcConsistent ==
    (last.op = "ac3" /\ last.ret = TRUE) => ArcConsistent(domains)

\* C5: ac3() returns True only if no domain is empty on return.
C5_Ac3TrueHasNoEmptyDomain ==
    (last.op = "ac3" /\ last.ret = TRUE) =>
        \A var \in variables : domains[var] # {}

\* C6: the slot select_unassigned_variable returns is unassigned, has a
\* smallest domain among the unassigned slots and, among all of those with a
\* smallest domain, a largest number of neighbors.
C6_SelectMinDomainMaxDegree ==
    \A k \in DOMAIN stack :
        LET f == stack[k]
            unassigned == variables \ DOMAIN f.assignment
            smallest == { v \in unassigned : \A u \in unassigned :
                            Cardinality(domains[v]) <= Cardinality(domains[u]) }
        IN  /\ f.var \in smallest
            /\ \A u \in smallest :
                  Cardinality(Neighbors(u)) <= Cardinality(Neighbors(f.var))

\* C8: when ac3() is called with two overlapping slots that have no
\* compatible pair of words, it returns False and leaves an empty domain.
C8_Ac3DetectsIncompatibleSlots ==
    ( /\ last.op = "ac3"
      /\ \E x \in variables, y \in variables :
            /\ Overlapping(x, y)
            /\ \A wx \in last.pre[x], wy \in last.pre[y] :
                  ~ Compatible(x, wx, y, wy) )
    => ( /\ last.ret = FALSE
         /\ \E var \in variables : domains[var] = {} )

\* C10: ac3's loop eventually stops.
C10_Ac3Terminates ==
    (pc = "ac3") ~> (pc # "ac3")

\* C11: an iteration of ac3's loop that pops the arc (X, Y) appends the arcs
\* (neighbor, X), for every neighbor of X other than Y, only when
\* revise(X, Y) returned True; when revise returned False the queue gets no
\* new arc.
C11_ReenqueueOnlyOnChange ==
    [][ (pc \in {"ac3", "ac3_call"} /\ queue # << >> /\ pc' = pc) =>
            LET X == queue[1][1]
                Y == queue[1][2]
                n == Len(queue) - 1
            IN  /\ SubSeq(queue', 1, n) = Tail(queue)
                /\ IF last'.ret
                   THEN /\ Len(queue') = n + Cardinality(Neighbors(X) \ {Y})
                        /\ { queue'[k] : k \in (n + 1)..Len(queue') }
                              = { <<neighbor, X>> : neighbor \in Neighbors(X) \ {Y} }
                   ELSE Len(queue') = n ]_vars

\* C12: ac3 called with no arcs starts from a queue that holds every ordered
\* pair of overlapping slots once, so both (X, Y) and (Y, X), and no pair
\* without an overlap; called with a list of arcs it starts from exactly
\* that list.
C12_InitialQueue ==
    (pc = "ac3_call" /\ last.op = "ac3_enter") =>
        IF last.args[1] = {}
        THEN /\ { queue[k] : k \in DOMAIN queue }
                   = { a \in variables \X variables : Overlapping(a[1], a[2]) }
             /\ \A k, m \in DOMAIN queue : queue[k] = queue[m] => k = m
        ELSE last.args[1] = {queue}

\* C13: revise(x, y) on overlapping slots leaves in x's domain exactly the
\* words of its previous domain that agree with some word of y's domain on
\* the shared cell, returns True iff it removed a word, and changes no other
\* domain; on slots without an overlap it changes nothing and returns
\* False.
C13_ReviseExact ==
    last.op = "revise" =>
        LET x == last.args[1]
            y == last.args[2]
            pre == last.pre
        IN  IF overlaps[<<x, y>>] # None
            THEN /\ domains[x] =
                      { wx \in pre[x] : \E wy \in pre[y] :
                          Char(wx, overlaps[<<x, y>>][1]) = Char(wy, overlaps[<<x, y>>][2]) }
                 /\ last.ret = (domains[x] # pre[x])
                 /\ \A v \in variables \ {x} : domains[v] = pre[v]
            ELSE /\ domains = pre
                 /\ last.ret = FALSE

\* revise(x, y) has run on overlapping slots whose offsets differ, and has
\* removed one word of x's domain and kept another.
C13_Witness ==
    /\ last.op = "revise"
    /\ overlaps[<<last.args[1], last.args[2]>>] # None
    /\ overlaps[<<last.args[1], last.args[2]>>][1] # overlaps[<<last.args[1], last.args[2]>>][2]
    /\ last.ret = TRUE
    /\ domains[last.args[1]] # {}
    /\ domains[last.args[1]] # last.pre[last.args[1]]

C15_DomainsNeverGrow ==
    [][ /\ \A v \in variables :
            /\ domains'[v] \subseteq domains[v]
            /\ domains'[v] \subseteq words
        /\ (pc \in {"search", "backtrack"} => domains' = domains) ]_vars

\* The search runs on domains that node consistency has pruned, and a call
\* of backtrack for a consistent extension has returned failure to its
\* caller, which goes on with the next value.
C15_Witness ==
    /\ pc = "backtrack"
    /\ \E v \in variables : domains[v] # words
    /\ LET top == stack[Len(stack)]
       IN  \E w \in domains[top.var] :
              /\ \A k \in DOMAIN top.values : top.values[k] # w
              /\ top.values # << >>
              /\ Consistent([v \in DOMAIN top.assignment \cup {top.var} |->
                                IF v = top.var THEN w ELSE top.assignment[v]])

\* C16: propagation preserves solutions: in every state, for every valid
\* solution of the problem, the word it gives each slot is still in that
\* slot's domain, and ac3 does not return False when the problem has a
\* valid solution.
C16_PropagationPreservesSolutions ==
    /\ \A a \in [variables -> words] :
          ValidSolution(a) => \A v \in variables : a[v] \in domains[v]
    /\ (last.op = "ac3" /\ last.ret = FALSE) => ~ Solvable

\* ac3 has returned on a problem that has a valid solution, after a word of
\* the right length was removed from some slot's domain.
C16_Witness ==
    /\ last.op = "ac3"
    /\ Solvable
    /\ \E v \in variables : \E w \in words :
          Len(w) = v.length /\ w \notin domains[v]
=============================================================================
